---------------------------- MODULE Spec2Model ----------------------------
(***************************************************************************)
(* Model of the tag-driven SQL encoder (sql builder: modifiers, clauses,   *)
(* parseStruct and friends) and of the grant / revoke / show operations of *)
(* pkg/sdk/grants.go.                                                      *)
(*                                                                         *)
(* Text is modelled at character level: a Go string is a sequence of       *)
(* one-character strings, so that quoting, trimming and joining are        *)
(* computed and not assumed.                                               *)
(***************************************************************************)
EXTENDS Integers, Sequences, FiniteSets, TLC

(***************************************************************************)
(* Bounds of the model.                                                    *)
(***************************************************************************)
\* the longest struct (number of fields) the Encode action draws
MaxFields == 3
\* the longest argument list handed to exactlyOneValueSet
MaxArgs == 3
\* the most rows the transport returns to Show
MaxRows == 2
\* the longest text handed to quoteModifier.Modify
MaxText == 3

(***************************************************************************)
(* Characters and text helpers (package strings / fmt).                    *)
(***************************************************************************)
SP == " "
DQ == "\""
SQ == "'"
BS == "\\"

\* strings.Join(elems, sep): elems is a sequence of texts
RECURSIVE Join(_, _)
Join(elems, sep) ==
    IF Len(elems) = 0 THEN <<>>
    ELSE IF Len(elems) = 1 THEN elems[1]
    ELSE elems[1] \o sep \o Join(Tail(elems), sep)

\* strings.ReplaceAll(s, old, new) for a one-character old
RECURSIVE ReplaceAll(_, _, _)
ReplaceAll(s, old, new) ==
    IF Len(s) = 0 THEN <<>>
    ELSE (IF Head(s) = old THEN new ELSE <<Head(s)>>) \o ReplaceAll(Tail(s), old, new)

\* strings.TrimLeft(s, cut) for a one-character cutset
RECURSIVE TrimLeft(_, _)
TrimLeft(s, cut) ==
    IF Len(s) > 0 /\ Head(s) = cut THEN TrimLeft(Tail(s), cut) ELSE s

\* strings.TrimRight(s, cut) for a one-character cutset
RECURSIVE TrimRight(_, _)
TrimRight(s, cut) ==
    IF Len(s) > 0 /\ s[Len(s)] = cut
    THEN TrimRight(SubSeq(s, 1, Len(s) - 1), cut) ELSE s

\* strings.Trim(s, cut) for a one-character cutset
Trim(s, cut) == TrimRight(TrimLeft(s, cut), cut)

\* strings.Split(s, sep) for a one-character sep: always at least one part
RECURSIVE SplitFrom(_, _, _, _)
SplitFrom(s, sep, i, cur) ==
    IF i > Len(s) THEN <<cur>>
    ELSE IF s[i] = sep THEN <<cur>> \o SplitFrom(s, sep, i + 1, <<>>)
    ELSE SplitFrom(s, sep, i + 1, Append(cur, s[i]))

Split(s, sep) == SplitFrom(s, sep, 1, <<>>)

Digit(d) == <<"0", "1", "2", "3", "4", "5", "6", "7", "8", "9">>[d + 1]

\* decimal text of a non-negative integer
RECURSIVE Itoa(_)
Itoa(n) == IF n < 10 THEN <<Digit(n)>> ELSE Itoa(n \div 10) \o <<Digit(n % 10)>>

(***************************************************************************)
(* Go values.  A value is a record with a kind k:                          *)
(*   str (s), bool (b), int (n), nil (a nil pointer), ptr (v),             *)
(*   id (idt, parts: a struct implementing Identifier),                    *)
(*   struct (fields), slice (elems), text (s: an sqlStaticClause).         *)
(***************************************************************************)
StrV(s) == [k |-> "str", s |-> s]
BoolV(b) == [k |-> "bool", b |-> b]
IntV(n) == [k |-> "int", n |-> n]
Text(s) == [k |-> "text", s |-> s]
NilPtr == [k |-> "nil"]
Ptr(v) == [k |-> "ptr", v |-> v]
Struct(fields) == [k |-> "struct", fields |-> fields]
Slice(elems) == [k |-> "slice", elems |-> elems]
Invalid == [k |-> "invalid"]

\* reflect.Kind of a value, as %s prints it
Kind(v) ==
    CASE v.k = "str" -> "string"
      [] v.k = "text" -> "string"
      [] v.k = "id" -> "struct"
      [] v.k = "nil" -> "ptr"
      [] v.k = "niliface" -> "invalid"
      [] OTHER -> v.k

\* the declared field, with its struct tag: ddl is the ddl tag split at
\* commas (empty: no ddl tag), db the db tag
Field(name, ddl, db, val) == [name |-> name, ddl |-> ddl, db |-> db, val |-> val]

\* fmt.Sprintf("%v", v)
Sprintf(v) ==
    CASE v.k = "str" -> v.s
      [] v.k = "text" -> v.s
      [] v.k = "bool" -> IF v.b THEN <<"t", "r", "u", "e">> ELSE <<"f", "a", "l", "s", "e">>
      [] v.k = "int" -> Itoa(v.n)


(***************************************************************************)
(* Identifiers (identifier model of the sdk): idt is the identifier type,  *)
(* parts the scope names from the outermost to the object's own name.      *)
(***************************************************************************)
Id(idt, parts) == [k |-> "id", idt |-> idt, parts |-> parts]

NewAccountObjectIdentifier(name) == Id("account", <<name>>)

\* the value implements Identifier
IsIdentifier(v) == v.k = "id"

\* the value implements ObjectIdentifier (it can render a qualified name)
IsObjectIdentifier(v) == v.k = "id" /\ v.idt # "bare"

\* Identifier.Name()
Name(id) == id.parts[Len(id.parts)]

\* ObjectIdentifier.FullyQualifiedName(): the double-quoted scope names
\* joined by dots
FullyQualifiedName(id) ==
    Join([i \in 1..Len(id.parts) |-> <<DQ>> \o id.parts[i] \o <<DQ>>], <<".">>)

(***************************************************************************)
(* Modifiers.  A modifier value is the (trimmed) tag token it was made of. *)
(***************************************************************************)
NoQuotes == "no_quotes"
DoubleQuotes == "double_quotes"
SingleQuotes == "single_quotes"
NoParentheses == "no_parentheses"
Parentheses == "parentheses"
NoReverse == "no_reverse"
Reverse == "reverse"
Equals == "equals"
NoEquals == "no_equals"

\* quoteModifier.String()
quoteModifier_String(qm) ==
    CASE qm = NoQuotes -> <<>>
      [] qm = DoubleQuotes -> <<DQ>>
      [] qm = SingleQuotes -> <<SQ>>
      [] OTHER -> <<>>

\* a Modify that wraps the value without escaping the quotes inside it
quoteModifier_Modify_unescaped(qm, v) ==
    quoteModifier_String(qm) \o Sprintf(v) \o quoteModifier_String(qm)

\* quoteModifier.Modify(v)
quoteModifier_Modify(qm, v) ==
    LET s == Sprintf(v)
        q == quoteModifier_String(qm)
    IN CASE qm = NoQuotes -> s
         [] qm = DoubleQuotes -> q \o ReplaceAll(s, DQ, q \o q) \o q
         [] qm = SingleQuotes -> q \o ReplaceAll(s, SQ, <<BS, SQ>>) \o q
         [] OTHER -> s

\* parenModifier.Modify(v)
parenModifier_Modify(pm, v) ==
    LET s == Sprintf(v)
    IN CASE pm = NoParentheses -> s
         [] pm = Parentheses -> <<"(">> \o s \o <<")">>
         [] OTHER -> s

\* the swap loop of reverseModifier.Modify: i runs from len/2 - 1 down to 0
\* (Go indexes from 0, the sequence from 1)
RECURSIVE reverseLoop(_, _)
reverseLoop(v, i) ==
    IF i < 0 THEN v
    ELSE LET opp == Len(v) - 1 - i
         IN reverseLoop([v EXCEPT ![i + 1] = v[opp + 1], ![opp + 1] = v[i + 1]], i - 1)

\* reverseModifier.Modify(v): v is a sequence of texts
reverseModifier_Modify(rm, v) ==
    CASE rm = NoReverse -> Join(v, <<SP>>)
      [] rm = Reverse -> Join(reverseLoop(v, (Len(v) \div 2) - 1), <<SP>>)
      [] OTHER -> Join(v, <<SP>>)

\* equalsModifier.Modify(v): v is the key text
equalsModifier_Modify(em, v) ==
    IF em = Equals THEN TrimLeft(v \o <<SP, "=", SP>>, SP)
    ELSE TrimLeft(v \o <<SP>>, SP)

\* strings.ToLower on a tag token
ToLower(part) ==
    CASE part = "PARENTHESES" -> "parentheses"
      [] part = "REVERSE" -> "reverse"
      [] part = "Equals" -> "equals"
      [] part = "Double_Quotes" -> "double_quotes"
      [] OTHER -> part

\* strings.TrimSpace on a tag token
TrimSpace(part) ==
    CASE part = " parentheses" -> "parentheses"
      [] part = " reverse" -> "reverse"
      [] OTHER -> part

\* strings.Contains(part, string(modType))
Contains(part, modType) ==
    CASE modType = "quotes" -> part \in {"no_quotes", "double_quotes", "single_quotes"}
      [] modType = "paren" -> part \in {"no_parentheses", "parentheses", " parentheses"}
      [] modType = "reverse" -> part \in {"no_reverse", "reverse", " reverse"}
      [] modType = "equals" -> part \in {"no_equals", "equals"}

\* the loop of getModifier over the parts of the tag
RECURSIVE getModifierFrom(_, _, _, _)
getModifierFrom(parts, i, modType, defaultMod) ==
    IF i > Len(parts) THEN defaultMod
    ELSE IF Contains(ToLower(parts[i]), modType) THEN TrimSpace(ToLower(parts[i]))
    ELSE getModifierFrom(parts, i + 1, modType, defaultMod)

\* sqlBuilder.getModifier(tag, "ddl", modType, defaultMod)
getModifier(field, modType, defaultMod) ==
    IF field.ddl = <<>> THEN defaultMod
    ELSE getModifierFrom(field.ddl, 1, modType, defaultMod)


(***************************************************************************)
(* Clauses.                                                                *)
(***************************************************************************)
NilClause == [t |-> "nil"]
sqlStaticClause(s) == [t |-> "static", s |-> s]
sqlKeywordClause(key, qm) == [t |-> "keyword", key |-> key, qm |-> qm]
sqlIdentifierClause(key, value, em) ==
    [t |-> "identifier", key |-> key, value |-> value, em |-> em]
sqlParameterClause(key, value, qm, em, rm) ==
    [t |-> "parameter", key |-> key, value |-> value, qm |-> qm, em |-> em, rm |-> rm]
sqlListClause(clauses, sep, pm) ==
    [t |-> "list", clauses |-> clauses, sep |-> sep, pm |-> pm]

\* sqlIdentifierClause.String()
sqlIdentifierClause_String(v) ==
    LET name == IF IsObjectIdentifier(v.value) THEN FullyQualifiedName(v.value)
                ELSE quoteModifier_Modify(DoubleQuotes, StrV(Name(v.value)))
    IN IF v.key # <<>> THEN equalsModifier_Modify(v.em, v.key) \o name ELSE name

\* a String() in which the equals modifier wins over the reverse modifier
sqlParameterClause_String_equalsWins(v) ==
    IF v.rm = Reverse /\ v.em # Equals
    THEN reverseModifier_Modify(v.rm, <<v.key, quoteModifier_Modify(v.qm, v.value)>>)
    ELSE equalsModifier_Modify(v.em, v.key) \o quoteModifier_Modify(v.qm, v.value)

\* sqlParameterClause.String()
sqlParameterClause_String(v) ==
    IF v.rm = Reverse
    THEN reverseModifier_Modify(v.rm, <<v.key, quoteModifier_Modify(v.qm, v.value)>>)
    ELSE LET s == equalsModifier_Modify(v.em, v.key)
         IN IF v.value.k = "niliface" THEN s
            ELSE s \o quoteModifier_Modify(v.qm, v.value)

\* the []string handed to reverseModifier.Modify once Modify has returned:
\* the Reverse case swaps its elements in place
reverseModifier_Swapped(rm, v) ==
    IF rm = Reverse THEN reverseLoop(v, (Len(v) \div 2) - 1) ELSE v

\* a String() that keeps the pair it hands to Modify in the clause itself, so
\* that the swap lands in the clause's key and value
sqlParameterClause_After_shared(v) ==
    IF v.rm = Reverse
    THEN [v EXCEPT !.key = reverseModifier_Swapped(v.rm, <<v.key, Sprintf(v.value)>>)[1],
                   !.value = Text(reverseModifier_Swapped(v.rm,
                                    <<v.key, Sprintf(v.value)>>)[2])]
    ELSE v

\* the clause once String() has returned: the receiver is a copy and the pair
\* handed to Modify is a slice made for the call, so the swap reaches neither
\* the key nor the value
sqlParameterClause_After(v) == v

\* the String() method of a clause
RECURSIVE String(_)
\* a String() that joins the clauses with a comma and a space
sqlListClause_String_spaced(v) ==
    IF Len(v.clauses) = 0 THEN <<>>
    ELSE parenModifier_Modify(v.pm,
            Text(Join([i \in 1..Len(v.clauses) |-> String(v.clauses[i])], v.sep \o <<SP>>)))

\* sqlListClause.String()
sqlListClause_String(v) ==
    IF Len(v.clauses) = 0 THEN <<>>
    ELSE parenModifier_Modify(v.pm,
            Text(Join([i \in 1..Len(v.clauses) |-> String(v.clauses[i])], v.sep)))

String(c) ==
    CASE c.t = "static" -> c.s
      [] c.t = "keyword" -> quoteModifier_Modify(c.qm, c.key)
      [] c.t = "identifier" -> sqlIdentifierClause_String(c)
      [] c.t = "parameter" -> sqlParameterClause_String(c)
      [] c.t = "list" -> sqlListClause_String(c)

\* "c != nil && c.String() != """: the clauses that survive pruning
Pruned(clauses) == SelectSeq(clauses, LAMBDA c : c.t # "nil" /\ String(c) # <<>>)

\* a sql that joins the clauses with two spaces
sql_doubleSpaced(clauses) ==
    Trim(Join([i \in 1..Len(Pruned(clauses)) |-> String(Pruned(clauses)[i])], <<SP, SP>>), SP)

\* sqlBuilder.sql(clauses...)
sql(clauses) ==
    LET kept == Pruned(clauses)
    IN Trim(Join([i \in 1..Len(kept) |-> String(kept[i])], <<SP>>), SP)

\* sqlBuilder.renderStaticClause(clauses...)
renderStaticClause(clauses) == sqlStaticClause(sql(clauses))

(***************************************************************************)
(* The encoder.  An error is a text; NoErr is Go's nil error.  A failed    *)
(* type assertion is a run-time panic, which unwinds every caller.         *)
(***************************************************************************)
NoErr == <<"nil">>
PanicCast == <<"panic", "interface conversion: interface is not sdk.Identifier">>
ErrExpectedStruct(kind) == <<"expected struct, got", kind>>

IsPanic(e) == e = PanicCast

\* ddlTagParts[0]: the kind of the field ("" without a ddl tag)
ddlType(field) == IF field.ddl = <<>> THEN "" ELSE field.ddl[1]

\* value.Elem() of a pointer; the zero Value of a nil pointer
Deref(v) ==
    CASE v.k = "ptr" -> v.v
      [] v.k = "nil" -> Invalid
      [] OTHER -> v

\* the fields reflection finds in a struct value; those of an identifier
\* are its unexported, untagged name strings
StructFields(v) ==
    IF v.k = "id"
    THEN [i \in 1..Len(v.parts) |-> Field("name", <<>>, <<>>, StrV(v.parts[i]))]
    ELSE v.fields

RECURSIVE parseStruct(_)
RECURSIVE parseFieldsFrom(_, _, _)
RECURSIVE parseFieldStruct(_, _)
RECURSIVE parseFieldSlice(_, _)
RECURSIVE parseSliceElems(_, _, _, _)
RECURSIVE parseField(_, _)

\* "if err != nil { return nil, err }; return b.renderStaticClause(...)":
\* the clause made of the clauses r of a nested parseStruct, after prefix
renderNested(prefix, r) ==
    IF r.err # NoErr THEN [err |-> r.err, c |-> NilClause]
    ELSE [err |-> NoErr, c |-> renderStaticClause(prefix \o r.clauses)]

\* the clause and a nil error
Clause(c) == [err |-> NoErr, c |-> c]

\* the switch of parseField on the ddl tag
parseFieldSwitch(field, value, ddlTag, dbTag) ==
    CASE ddlTag = "keyword" ->
            IF value.k = "bool"
            THEN IF value.b
                 THEN Clause(renderStaticClause(
                        <<sqlKeywordClause(StrV(dbTag),
                            getModifier(field, "quotes", NoQuotes))>>))
                 ELSE Clause(NilClause)
            ELSE Clause(renderStaticClause(
                    <<sqlKeywordClause(value, getModifier(field, "quotes", NoQuotes))>>))
      [] ddlTag = "identifier" ->
            IF IsIdentifier(value)
            THEN Clause(renderStaticClause(
                    <<sqlIdentifierClause(dbTag, value,
                        getModifier(field, "equals", NoEquals))>>))
            ELSE [err |-> PanicCast, c |-> NilClause]
      [] ddlTag = "parameter" ->
            Clause(renderStaticClause(
                <<sqlParameterClause(dbTag, value,
                    getModifier(field, "quotes", NoQuotes),
                    getModifier(field, "equals", Equals),
                    getModifier(field, "reverse", NoReverse))>>))
      [] OTHER -> Clause(NilClause)

\* parseField once the ddl tag is known to be there and the pointer is
\* dereferenced
parseFieldTagged(field, value, ddlTag, dbTag) ==
    IF ddlTag = "static" THEN Clause(sqlStaticClause(dbTag))
    ELSE IF value.k = "invalid" THEN Clause(NilClause)
    ELSE IF field.val.k \in {"struct", "id"} THEN renderNested(<<>>, parseStruct(value))
    ELSE parseFieldSwitch(field, value, ddlTag, dbTag)

\* a parseField that treats a field without a ddl tag as a keyword
parseField_untaggedAsKeyword(field, value) ==
    parseFieldTagged(field, IF Kind(value) = "ptr" THEN Deref(value) ELSE value,
                     IF field.ddl = <<>> THEN "keyword" ELSE ddlType(field), field.db)

\* sqlBuilder.parseField(field, value)
parseField(field, value) ==
    IF field.ddl = <<>> THEN Clause(NilClause)
    ELSE parseFieldTagged(field, IF Kind(value) = "ptr" THEN Deref(value) ELSE value,
                          ddlType(field), field.db)

\* the "list" case of parseFieldStruct: r is parseStruct of the value
parseFieldStructList(field, dbTag, r) ==
    IF r.err # NoErr THEN [err |-> r.err, c |-> NilClause]
    ELSE Clause(renderStaticClause(
            (IF dbTag # <<>> THEN <<sqlStaticClause(dbTag)>> ELSE <<>>)
            \o <<sqlListClause(r.clauses, <<",">>,
                    getModifier(field, "paren", NoParentheses))>>))

\* sqlBuilder.parseFieldStruct(field, value)
parseFieldStruct(field, value) ==
    LET ddlTag == ddlType(field)
        dbTag == field.db
        tagged == field.ddl # <<>>
    IN IF tagged /\ ddlTag = "identifier" /\ IsIdentifier(value)
       THEN IF Name(value) = <<>> THEN Clause(NilClause)
            ELSE Clause(sqlIdentifierClause(dbTag, value,
                            getModifier(field, "equals", NoEquals)))
       ELSE IF tagged /\ ddlTag = "list"
       THEN parseFieldStructList(field, dbTag, parseStruct(value))
       ELSE renderNested(
                IF tagged /\ ddlTag = "keyword"
                THEN <<sqlKeywordClause(StrV(dbTag), getModifier(field, "quotes", NoQuotes))>>
                ELSE <<>>,
                parseStruct(value))

\* a struct or pointer element of the slice: r is parseStruct of the element
parseSliceStructElem(field, elems, i, listClauses, r) ==
    IF r.err # NoErr THEN [err |-> r.err, clauses |-> <<>>]
    ELSE parseSliceElems(field, elems, i + 1,
            Append(listClauses, renderStaticClause(r.clauses)))

\* the loop of parseFieldSlice over the elements
parseSliceElems(field, elems, i, listClauses) ==
    IF i > Len(elems) THEN [err |-> NoErr, clauses |-> listClauses]
    ELSE IF IsIdentifier(elems[i])
    THEN parseSliceElems(field, elems, i + 1,
            Append(listClauses, sqlIdentifierClause(<<>>, elems[i],
                getModifier(field, "equals", NoEquals))))
    ELSE IF Kind(elems[i]) \in {"struct", "ptr"}
    THEN parseSliceStructElem(field, elems, i, listClauses, parseStruct(elems[i]))
    ELSE parseSliceElems(field, elems, i + 1,
            Append(listClauses, sqlStaticClause(Sprintf(elems[i]))))

\* parseFieldSlice after the loop: the list clause, wrapped as the ddl tag asks
parseFieldSliceWrap(field, sClause, ddlTag, dbTag) ==
    CASE ddlTag = "parameter" ->
            Clause(sqlParameterClause(dbTag, Text(sClause.s),
                    getModifier(field, "quotes", NoQuotes),
                    getModifier(field, "equals", Equals),
                    getModifier(field, "reverse", NoReverse)))
      [] ddlTag = "keyword" ->
            Clause(renderStaticClause(
                    <<sqlKeywordClause(StrV(dbTag), getModifier(field, "quotes", NoQuotes)),
                      sClause>>))
      [] OTHER -> Clause(sClause)

\* parseFieldSlice after the loop: l holds the clauses of the elements
parseFieldSliceList(field, l) ==
    IF l.err # NoErr THEN [err |-> l.err, c |-> NilClause]
    ELSE IF Len(l.clauses) < 1 THEN Clause(NilClause)
    ELSE parseFieldSliceWrap(field,
            renderStaticClause(<<sqlListClause(l.clauses, <<",">>,
                                    getModifier(field, "paren", NoParentheses))>>),
            ddlType(field), field.db)

\* sqlBuilder.parseFieldSlice(field, value)
parseFieldSlice(field, value) ==
    parseFieldSliceList(field, parseSliceElems(field, value.elems, 1, <<>>))

\* one round of the loop of parseStruct: r is what the field's parser returned
parseFieldsNext(fields, i, clauses, r) ==
    IF r.err # NoErr THEN [err |-> r.err, clauses |-> <<>>]
    ELSE parseFieldsFrom(fields, i + 1, Append(clauses, r.c))

\* the switch of parseStruct on the kind of the (dereferenced) value
parseFieldByKind(field, value) ==
    CASE Kind(value) = "slice" -> parseFieldSlice(field, value)
      [] Kind(value) = "struct" -> parseFieldStruct(field, value)
      [] OTHER -> parseField(field, value)

\* the loop of parseStruct over the fields, in declared order
parseFieldsFrom(fields, i, clauses) ==
    IF i > Len(fields) THEN [err |-> NoErr, clauses |-> clauses]
    ELSE IF fields[i].val.k = "nil" THEN parseFieldsFrom(fields, i + 1, clauses)
    ELSE parseFieldsNext(fields, i, clauses,
            parseFieldByKind(fields[i],
                IF fields[i].val.k = "ptr" THEN fields[i].val.v ELSE fields[i].val))

\* the end of parseStruct: "prune all nil and empty string clauses"
parseStructPrune(r) ==
    IF r.err # NoErr THEN r
    ELSE [err |-> NoErr, clauses |-> Pruned(r.clauses)]

\* a parseStruct that takes a value that is no struct for an empty struct
parseStruct_lenient(s) ==
    LET v == IF Kind(s) = "ptr" THEN Deref(s) ELSE s
    IN IF Kind(v) # "struct" THEN [err |-> NoErr, clauses |-> <<>>]
       ELSE parseStructPrune(parseFieldsFrom(StructFields(v), 1, <<>>))

\* sqlBuilder.parseStruct(s)
parseStruct(s) ==
    LET v == IF Kind(s) = "ptr" THEN Deref(s) ELSE s
    IN IF Kind(v) # "struct" THEN [err |-> ErrExpectedStruct(Kind(v)), clauses |-> <<>>]
       ELSE parseStructPrune(parseFieldsFrom(StructFields(v), 1, <<>>))

\* what structToSQL makes of parseStruct's result r
structToSQLResult(r) ==
    IF IsPanic(r.err) THEN [sql |-> <<>>, err |-> r.err, panicked |-> TRUE]
    ELSE IF r.err # NoErr THEN [sql |-> <<>>, err |-> r.err, panicked |-> FALSE]
    ELSE [sql |-> sql(r.clauses), err |-> NoErr, panicked |-> FALSE]

\* structToSQL(v): the text, the error returned, and whether the call
\* panicked instead of returning
structToSQL(v) == structToSQLResult(parseStruct(v))

\* a field once the encoder is done with it: the clause of a scalar parameter
\* field is made of the field's db tag and value, and nothing else of the
\* encoder is written to after it was made
fieldAfter(field) ==
    IF ddlType(field) = "parameter" /\ field.val.k \in {"str", "bool", "int"}
    THEN [field EXCEPT
            !.db = sqlParameterClause_After(
                        sqlParameterClause(field.db, field.val,
                            getModifier(field, "quotes", NoQuotes),
                            getModifier(field, "equals", Equals),
                            getModifier(field, "reverse", NoReverse))).key,
            !.val = sqlParameterClause_After(
                        sqlParameterClause(field.db, field.val,
                            getModifier(field, "quotes", NoQuotes),
                            getModifier(field, "equals", Equals),
                            getModifier(field, "reverse", NoReverse))).value]
    ELSE field

\* the struct once structToSQL has returned
valueAfter(v) == Struct([i \in 1..Len(v.fields) |-> fieldAfter(v.fields[i])])

(***************************************************************************)
(* Validation helpers of the sdk (validations.go).                         *)
(***************************************************************************)
\* the longest valid identifier name
MaxIdentifierLength == 255

ErrInvalidObjectIdentifier == <<"invalid object identifier">>

\* validObjectidentifier(objectIdentifier)
validObjectidentifier(id) ==
    LET l == Len(Name(id))
    IN ~(l = 0 \/ l > MaxIdentifierLength)

\* valueSet(value)
valueSet(v) ==
    CASE v.k = "niliface" -> FALSE
      [] v.k = "nil" -> FALSE
      [] v.k = "id" -> validObjectidentifier(v)
      [] OTHER -> TRUE

\* the counting loop of exactlyOneValueSet
RECURSIVE countValueSet(_, _, _)
countValueSet(values, i, count) ==
    IF i > Len(values) THEN count
    ELSE countValueSet(values, i + 1, IF valueSet(values[i]) THEN count + 1 ELSE count)

\* exactlyOneValueSet(values...)
exactlyOneValueSet(values) == countValueSet(values, 1, 0) = 1

\* everyValueNil(values...)
RECURSIVE everyValueNil(_)
everyValueNil(values) ==
    IF Len(values) = 0 THEN TRUE
    ELSE IF valueSet(Head(values)) THEN FALSE
    ELSE everyValueNil(Tail(values))

(***************************************************************************)
(* The options types of grants.go, with their struct tags.                 *)
(***************************************************************************)
\* a field of a struct (or of the struct a pointer points to), by name
Get(v, name) ==
    LET s == IF v.k = "ptr" THEN v.v ELSE v
        i == CHOOSE j \in 1..Len(s.fields) : s.fields[j].name = name
    IN s.fields[i].val

\* type OnTable struct
OnTable(Name_, AllInSchema) ==
    Struct(<<Field("Name", <<"identifier">>, <<"T", "A", "B", "L", "E">>, Name_),
             Field("AllInSchema", <<"identifier">>, <<"A", "L", "L", " ", "T", "A", "B", "L", "E", "S", " ", "I", "N", " ", "S", "C", "H", "E", "M", "A">>, AllInSchema)>>)

\* type OnView struct
OnView(Name_, AllInSchema) ==
    Struct(<<Field("Name", <<"identifier">>, <<"V", "I", "E", "W">>, Name_),
             Field("AllInSchema", <<"identifier">>, <<"A", "L", "L", " ", "V", "I", "E", "W", "S", " ", "I", "N", " ", "S", "C", "H", "E", "M", "A">>, AllInSchema)>>)

\* type GrantPrivilegeToShareOn struct
GrantPrivilegeToShareOn(Database, Schema, Function, Table, View) ==
    Struct(<<Field("Database", <<"identifier">>, <<"D", "A", "T", "A", "B", "A", "S", "E">>, Database),
             Field("Schema", <<"identifier">>, <<"S", "C", "H", "E", "M", "A">>, Schema),
             Field("Function", <<"identifier">>, <<"F", "U", "N", "C", "T", "I", "O", "N">>, Function),
             Field("Table", <<"-">>, <<>>, Table),
             Field("View", <<"identifier">>, <<"V", "I", "E", "W">>, View)>>)

\* type RevokePrivilegeFromShareOn struct
RevokePrivilegeFromShareOn(Database, Schema, Table, View) ==
    Struct(<<Field("Database", <<"identifier">>, <<"D", "A", "T", "A", "B", "A", "S", "E">>, Database),
             Field("Schema", <<"identifier">>, <<"S", "C", "H", "E", "M", "A">>, Schema),
             Field("Table", <<"-">>, <<>>, Table),
             Field("View", <<"-">>, <<>>, View)>>)

\* type grantPrivilegeToShareOptions struct
grantPrivilegeToShareOptions(objectPrivilege, On, to) ==
    Struct(<<Field("grant", <<"static">>, <<"G", "R", "A", "N", "T">>, BoolV(FALSE)),
             Field("objectPrivilege", <<"keyword">>, <<>>, StrV(objectPrivilege)),
             Field("On", <<"keyword">>, <<"O", "N">>, On),
             Field("to", <<"identifier">>, <<"T", "O", " ", "S", "H", "A", "R", "E">>, to)>>)

\* type revokePrivilegeFromShareOptions struct
revokePrivilegeFromShareOptions(objectPrivilege, On, from) ==
    Struct(<<Field("revoke", <<"static">>, <<"R", "E", "V", "O", "K", "E">>, BoolV(FALSE)),
             Field("objectPrivilege", <<"keyword">>, <<>>, StrV(objectPrivilege)),
             Field("On", <<"keyword">>, <<"O", "N">>, On),
             Field("from", <<"identifier">>, <<"F", "R", "O", "M", " ", "S", "H", "A", "R", "E">>, from)>>)

\* type ShowGrantsOptions struct
ShowGrantsOptions(On, To, Of) ==
    Struct(<<Field("show", <<"static">>, <<"S", "H", "O", "W">>, BoolV(FALSE)),
             Field("grants", <<"static">>, <<"G", "R", "A", "N", "T", "S">>, BoolV(FALSE)),
             Field("On", <<"keyword">>, <<"O", "N">>, On),
             Field("To", <<"keyword">>, <<"T", "O">>, To),
             Field("Of", <<"keyword">>, <<"O", "F">>, Of)>>)

\* type ShowGrantsOn struct
ShowGrantsOn(Account, Object) ==
    Struct(<<Field("Account", <<"keyword">>, <<"A", "C", "C", "O", "U", "N", "T">>, Account),
             Field("Object", <<>>, <<>>, Object)>>)

\* type ShowGrantsTo struct
ShowGrantsTo(Role, User, Share) ==
    Struct(<<Field("Role", <<"identifier">>, <<"R", "O", "L", "E">>, Role),
             Field("User", <<"identifier">>, <<"U", "S", "E", "R">>, User),
             Field("Share", <<"identifier">>, <<"S", "H", "A", "R", "E">>, Share)>>)

\* type ShowGrantsOf struct
ShowGrantsOf(Role, Share) ==
    Struct(<<Field("Role", <<"identifier">>, <<"R", "O", "L", "E">>, Role),
             Field("Share", <<"identifier">>, <<"S", "H", "A", "R", "E">>, Share)>>)

(***************************************************************************)
(* validate() of the options types.                                        *)
(***************************************************************************)
ErrOnAndPrivilegeRequired == <<"on and objectPrivilege are required">>
ErrOnlyOneOfGrantOn == <<"only one of database, schema, function, table, or view can be set">>
ErrOnlyOneOfRevokeOn == <<"only one of database, schema, table, or view can be set">>
ErrOnlyOneOfName == <<"only one of name or allInSchema can be set">>
ErrShowAtLeastOne == <<"at least one of on, to, or of is required">>
ErrShowOnlyOne == <<"only one of on, to, or of can be set">>

\* (*OnTable).validate() and (*OnView).validate()
OnTable_validate(v) ==
    IF ~exactlyOneValueSet(<<Get(v, "Name"), Get(v, "AllInSchema")>>)
    THEN ErrOnlyOneOfName
    ELSE NoErr

OnView_validate(v) ==
    IF ~exactlyOneValueSet(<<Get(v, "Name"), Get(v, "AllInSchema")>>)
    THEN ErrOnlyOneOfName
    ELSE NoErr

\* (*GrantPrivilegeToShareOn).validate(): no caller in grants.go
GrantPrivilegeToShareOn_validate(v) ==
    IF ~exactlyOneValueSet(<<Get(v, "Database"), Get(v, "Schema"), Get(v, "Function"),
                             Get(v, "Table"), Get(v, "View")>>)
    THEN ErrOnlyOneOfGrantOn
    ELSE IF valueSet(Get(v, "Table")) /\ OnTable_validate(Get(v, "Table")) # NoErr
    THEN OnTable_validate(Get(v, "Table"))
    ELSE NoErr

\* a validate() of the grant options that does not check the share identifier
grantPrivilegeToShareOptions_validate_anyShare(opts) ==
    IF ~valueSet(Get(opts, "On")) \/ Get(opts, "objectPrivilege").s = <<>>
    THEN ErrOnAndPrivilegeRequired
    ELSE IF ~exactlyOneValueSet(<<Get(Get(opts, "On"), "Database"),
                Get(Get(opts, "On"), "Schema"), Get(Get(opts, "On"), "Function"),
                Get(Get(opts, "On"), "Table"), Get(Get(opts, "On"), "View")>>)
    THEN ErrOnlyOneOfGrantOn
    ELSE NoErr

\* (*grantPrivilegeToShareOptions).validate()
grantPrivilegeToShareOptions_validate(opts) ==
    IF ~validObjectidentifier(Get(opts, "to")) THEN ErrInvalidObjectIdentifier
    ELSE IF ~valueSet(Get(opts, "On")) \/ Get(opts, "objectPrivilege").s = <<>>
    THEN ErrOnAndPrivilegeRequired
    ELSE LET On == Get(opts, "On")
         IN IF ~exactlyOneValueSet(<<Get(On, "Database"), Get(On, "Schema"),
                    Get(On, "Function"), Get(On, "Table"), Get(On, "View")>>)
            THEN ErrOnlyOneOfGrantOn
            ELSE NoErr

\* (*RevokePrivilegeFromShareOn).validate()
RevokePrivilegeFromShareOn_validate(v) ==
    IF ~exactlyOneValueSet(<<Get(v, "Database"), Get(v, "Schema"),
                             Get(v, "Table"), Get(v, "View")>>)
    THEN ErrOnlyOneOfRevokeOn
    ELSE IF valueSet(Get(v, "Table")) THEN OnTable_validate(Get(v, "Table"))
    ELSE IF valueSet(Get(v, "View")) THEN OnView_validate(Get(v, "View"))
    ELSE NoErr

\* (*revokePrivilegeFromShareOptions).validate()
revokePrivilegeFromShareOptions_validate(opts) ==
    IF ~validObjectidentifier(Get(opts, "from")) THEN ErrInvalidObjectIdentifier
    ELSE IF ~valueSet(Get(opts, "On")) \/ Get(opts, "objectPrivilege").s = <<>>
    THEN ErrOnAndPrivilegeRequired
    ELSE LET On == Get(opts, "On")
         IN IF ~exactlyOneValueSet(<<Get(On, "Database"), Get(On, "Schema"),
                    Get(On, "Table"), Get(On, "View")>>)
            THEN ErrOnlyOneOfGrantOn
            ELSE RevokePrivilegeFromShareOn_validate(On)

\* a validate() of the show options that only asks for one target or more
ShowGrantsOptions_validate_atLeastOne(opts) ==
    IF everyValueNil(<<Get(opts, "On"), Get(opts, "To"), Get(opts, "Of")>>)
    THEN ErrShowAtLeastOne
    ELSE NoErr

\* (*ShowGrantsOptions).validate()
ShowGrantsOptions_validate(opts) ==
    IF everyValueNil(<<Get(opts, "On"), Get(opts, "To"), Get(opts, "Of")>>)
    THEN ErrShowAtLeastOne
    ELSE IF ~exactlyOneValueSet(<<Get(opts, "On"), Get(opts, "To"), Get(opts, "Of")>>)
    THEN ErrShowOnlyOne
    ELSE NoErr

(***************************************************************************)
(* Rows of SHOW GRANTS and their conversion.                               *)
(***************************************************************************)
ObjectTypeShare == <<"S", "H", "A", "R", "E">>

\* type grantRow struct
grantRow(Privilege, GrantedOn, Name_, GrantedTo, GranteeName, GrantOption, GrantedBy) ==
    [CreatedOn |-> 0, Privilege |-> Privilege, GrantedOn |-> GrantedOn, Name |-> Name_,
     GrantedTo |-> GrantedTo, GranteeName |-> GranteeName,
     GrantOption |-> GrantOption, GrantedBy |-> GrantedBy]

\* a toGrant() that keeps the account of a share grantee name
grantRow_toGrant_unsplit(row) ==
    LET grantedTo == row.GrantedTo
        parts == Split(row.GranteeName, ".")
        name == Join(Tail(parts), <<".">>)
        granteeName == IF grantedTo = ObjectTypeShare
                       THEN NewAccountObjectIdentifier(row.GranteeName)
                       ELSE NewAccountObjectIdentifier(row.GranteeName)
    IN [grant |-> [CreatedOn |-> row.CreatedOn,
                   Privilege |-> row.Privilege,
                   GrantedOn |-> row.GrantedOn,
                   GrantedTo |-> grantedTo,
                   Name |-> NewAccountObjectIdentifier(Trim(row.Name, DQ)),
                   GranteeName |-> granteeName,
                   GrantOption |-> row.GrantOption,
                   GrantedBy |-> NewAccountObjectIdentifier(row.GrantedBy)],
        err |-> NoErr]

\* (*grantRow).toGrant(): the Grant and the error
grantRow_toGrant(row) ==
    LET grantedTo == row.GrantedTo
        parts == Split(row.GranteeName, ".")
        name == Join(Tail(parts), <<".">>)
        granteeName == IF grantedTo = ObjectTypeShare
                       THEN NewAccountObjectIdentifier(name)
                       ELSE NewAccountObjectIdentifier(row.GranteeName)
    IN [grant |-> [CreatedOn |-> row.CreatedOn,
                   Privilege |-> row.Privilege,
                   GrantedOn |-> row.GrantedOn,
                   GrantedTo |-> grantedTo,
                   Name |-> NewAccountObjectIdentifier(Trim(row.Name, DQ)),
                   GranteeName |-> granteeName,
                   GrantOption |-> row.GrantOption,
                   GrantedBy |-> NewAccountObjectIdentifier(row.GrantedBy)],
        err |-> NoErr]

\* the loop of Show over the rows
RECURSIVE toGrants(_, _, _)
toGrants(rows, i, grants) ==
    IF i > Len(rows) THEN [grants |-> grants, err |-> NoErr]
    ELSE LET g == grantRow_toGrant(rows[i])
         IN IF g.err # NoErr THEN [grants |-> <<>>, err |-> g.err]
            ELSE toGrants(rows, i + 1, Append(grants, g.grant))

(***************************************************************************)
(* The operations.  Each returns what the call did: the error validate()   *)
(* returned, whether structToSQL was called and its result, the statements *)
(* handed to the transport, and what the caller gets back.  transportErr   *)
(* is the transport's answer (and rows what it decodes) should it be       *)
(* called.                                                                 *)
(***************************************************************************)
\* the value of "enc" when structToSQL was not called
NotEncoded == [sql |-> <<>>, err |-> NoErr, panicked |-> FALSE]

Outcome(validateErr, encoded, enc, sent, ret, grants) ==
    [validateErr |-> validateErr, encoded |-> encoded, enc |-> enc,
     sent |-> sent, ret |-> ret, grants |-> grants]

\* the end of the two exec operations: enc is structToSQL(opts)
execEncoded(enc, transportErr) ==
    IF enc.err # NoErr
    THEN Outcome(NoErr, TRUE, enc, <<>>, enc.err, <<>>)
    ELSE Outcome(NoErr, TRUE, enc, <<enc.sql>>, transportErr, <<>>)

\* the body of an exec operation that does not look at what validate()
\* returned: the defect the short-circuit guards against
execOperation_unvalidated(opts, validateErr, transportErr) ==
    execEncoded(structToSQL(opts), transportErr)

\* the body shared by the two exec operations, after opts is built
execOperation(opts, validateErr, transportErr) ==
    IF validateErr # NoErr
    THEN Outcome(validateErr, FALSE, NotEncoded, <<>>, validateErr, <<>>)
    ELSE execEncoded(structToSQL(opts), transportErr)

\* (*grants).GrantPrivilegeToShare(ctx, objectPrivilege, on, to)
GrantPrivilegeToShare(objectPrivilege, on, to, transportErr) ==
    LET opts == Ptr(grantPrivilegeToShareOptions(objectPrivilege, on, to))
    IN execOperation(opts, grantPrivilegeToShareOptions_validate(opts), transportErr)

\* (*grants).RevokePrivilegeFromShare(ctx, objectPrivilege, on, id)
RevokePrivilegeFromShare(objectPrivilege, on, id, transportErr) ==
    LET opts == Ptr(revokePrivilegeFromShareOptions(objectPrivilege, on, id))
    IN execOperation(opts, revokePrivilegeFromShareOptions_validate(opts), transportErr)

\* the end of Show: enc is structToSQL(opts), g the converted rows
showEncoded(enc, g, transportErr) ==
    IF enc.err # NoErr
    THEN Outcome(NoErr, TRUE, enc, <<>>, enc.err, <<>>)
    ELSE IF transportErr # NoErr
    THEN Outcome(NoErr, TRUE, enc, <<enc.sql>>, transportErr, <<>>)
    ELSE Outcome(NoErr, TRUE, enc, <<enc.sql>>, g.err, g.grants)

\* Show once opts is not nil
showOptions(opts, validateErr, rows, transportErr) ==
    IF validateErr # NoErr
    THEN Outcome(validateErr, FALSE, NotEncoded, <<>>, validateErr, <<>>)
    ELSE showEncoded(structToSQL(opts), toGrants(rows, 1, <<>>), transportErr)

\* "if opts == nil { opts = &ShowGrantsOptions{} }"
showDefault(opts) ==
    IF opts.k = "nil" THEN Ptr(ShowGrantsOptions(NilPtr, NilPtr, NilPtr)) ELSE opts

\* (*grants).Show(ctx, opts)
Show(opts, rows, transportErr) ==
    showOptions(showDefault(opts), ShowGrantsOptions_validate(showDefault(opts)),
                rows, transportErr)


(***************************************************************************)
(* Inputs.  Pools are tuples; an input is drawn by its index.              *)
(***************************************************************************)
\* all sequences of at most n elements of the tuple pool
SeqsUpTo(pool, n) ==
    UNION {{[i \in 1..m |-> pool[f[i]]] : f \in [1..m -> 1..Len(pool)]} : m \in 0..n}

\* a name of n characters
NameOfLen(n) == [i \in 1..n |-> "x"]

S1 == <<"S", "1">>
R1 == <<"R", "1">>
DB == <<"D", "B">>
SC == <<"S", "C">>
OBJ == <<"O", "B", "J">>
SELECT == <<"S", "E", "L", "E", "C", "T">>

ZeroAccount == Id("account", <<<<>>>>)
ZeroSchema == Id("schema", <<<<>>, <<>>>>)
ZeroSchemaObject == Id("schemaobject", <<<<>>, <<>>, <<>>>>)
SetAccount == Id("account", <<DB>>)
SetSchema == Id("schema", <<DB, SC>>)
SetSchemaObject == Id("schemaobject", <<DB, SC, OBJ>>)

\* the share names given as to / from: empty, one character, short, longest
\* valid, too long
ShareNames ==
    <<<<>>, NameOfLen(1), S1, NameOfLen(MaxIdentifierLength),
      NameOfLen(MaxIdentifierLength + 1)>>

Privileges == <<<<>>, SELECT>>

\* *OnTable arguments: nil, and every combination of Name / AllInSchema
OnTables ==
    <<NilPtr,
      Ptr(OnTable(ZeroSchemaObject, ZeroSchema)),
      Ptr(OnTable(SetSchemaObject, ZeroSchema)),
      Ptr(OnTable(ZeroSchemaObject, SetSchema)),
      Ptr(OnTable(SetSchemaObject, SetSchema))>>

OnViews ==
    <<NilPtr,
      Ptr(OnView(ZeroSchemaObject, ZeroSchema)),
      Ptr(OnView(SetSchemaObject, ZeroSchema)),
      Ptr(OnView(ZeroSchemaObject, SetSchema)),
      Ptr(OnView(SetSchemaObject, SetSchema))>>

ErrTransport == <<"transport error">>
TransportErrs == <<NoErr, ErrTransport>>

ShowOns == <<NilPtr, Ptr(ShowGrantsOn(Ptr(BoolV(TRUE)), NilPtr))>>
ShowTos == <<NilPtr,
             Ptr(ShowGrantsTo(NewAccountObjectIdentifier(R1), ZeroAccount, ZeroAccount)),
             Ptr(ShowGrantsTo(ZeroAccount, ZeroAccount, NewAccountObjectIdentifier(S1)))>>
ShowOfs == <<NilPtr, Ptr(ShowGrantsOf(ZeroAccount, NewAccountObjectIdentifier(S1)))>>

\* the rows the transport may decode
RowPool ==
    <<grantRow(<<"U", "S", "A", "G", "E">>, <<"D", "A", "T", "A", "B", "A", "S", "E">>, <<DQ>> \o DB \o <<DQ>>, <<"S", "H", "A", "R", "E">>, <<"A", "C", "C", ".", "S", "1">>, FALSE, R1),
      grantRow(<<"U", "S", "A", "G", "E">>, <<"D", "A", "T", "A", "B", "A", "S", "E">>, DB, <<"R", "O", "L", "E">>, <<"R", "1">>, TRUE, R1),
      grantRow(<<"U", "S", "A", "G", "E">>, <<"D", "A", "T", "A", "B", "A", "S", "E">>, DB, <<"S", "H", "A", "R", "E">>, <<"S", "1">>, FALSE, <<>>),
      grantRow(<<"S", "E", "L", "E", "C", "T">>, <<"T", "A", "B", "L", "E">>, DB, <<"R", "O", "L", "E">>, <<"A", ".", "B">>, FALSE, R1),
      grantRow(<<"S", "E", "L", "E", "C", "T">>, <<"T", "A", "B", "L", "E">>, DB, <<"S", "H", "A", "R", "E">>, <<"A", ".", "B", ".", "C">>, FALSE, R1),
      grantRow(<<"U", "S", "A", "G", "E">>, <<"D", "A", "T", "A", "B", "A", "S", "E">>, DB, <<"S", "H", "A", "R", "E">>, <<>>, FALSE, R1)>>

\* the tags of the fields DoEncode draws: the ddl tag split at commas, the
\* db tag, and whether the tag is also drawn for the fields of the context
TagPool ==
    <<[ddl |-> <<>>, db |-> <<>>, context |-> TRUE],
      [ddl |-> <<"static">>, db |-> <<"S", "T">>, context |-> TRUE],
      [ddl |-> <<"keyword">>, db |-> <<"K", "W">>, context |-> TRUE],
      [ddl |-> <<"identifier">>, db |-> <<"I", "D">>, context |-> TRUE],
      [ddl |-> <<"parameter">>, db |-> <<"P", "A">>, context |-> TRUE],
      [ddl |-> <<"-">>, db |-> <<>>, context |-> FALSE],
      [ddl |-> <<"keyword", "parentheses">>, db |-> <<"K", "P">>, context |-> FALSE],
      [ddl |-> <<"list", "parentheses">>, db |-> <<"L", "I">>, context |-> FALSE],
      [ddl |-> <<"parameter", "parentheses">>, db |-> <<"P", "P">>, context |-> FALSE],
      [ddl |-> <<"parameter", "reverse">>, db |-> <<"R", "V">>, context |-> FALSE],
      [ddl |-> <<"parameter", "double_quotes", "reverse", "equals">>, db |-> <<"R", "E">>,
       context |-> FALSE],
      [ddl |-> <<"parameter", "single_quotes", "no_equals">>, db |-> <<"N", "E">>,
       context |-> FALSE]>>

\* a struct all of whose fields are absent
AbsentStruct ==
    Struct(<<Field("A", <<"keyword">>, <<"A", "K">>, NilPtr),
             Field("B", <<"keyword">>, <<"B", "K">>, BoolV(FALSE)),
             Field("C", <<"identifier">>, <<"C", "I">>, ZeroAccount)>>)

\* a struct with one field present
PresentStruct ==
    Struct(<<Field("A", <<"keyword">>, <<"A", "K">>, NilPtr),
             Field("X", <<"keyword">>, <<>>, StrV(<<"x">>))>>)

\* a struct with a sequence of pointers to integers: parseStruct fails on the
\* first element
FailingStruct ==
    Struct(<<Field("P", <<"keyword">>, <<"P", "K">>, Slice(<<Ptr(IntV(10))>>))>>)

\* the run-time values of the fields DoEncode draws
ValuePool ==
    <<StrV(<<"a">>), BoolV(TRUE), BoolV(FALSE), NilPtr, Ptr(StrV(<<"b">>)),
      NewAccountObjectIdentifier(S1), ZeroAccount,
      PresentStruct, AbsentStruct, Ptr(PresentStruct),
      Slice(<<>>), Slice(<<StrV(<<"a">>), StrV(<<"b">>), StrV(<<"c">>)>>),
      Slice(<<AbsentStruct>>), Slice(<<AbsentStruct, PresentStruct>>),
      Slice(<<IntV(10)>>), Slice(<<StrV(<<>>), BoolV(TRUE)>>),
      Slice(<<Ptr(StrV(<<"a">>))>>),
      FailingStruct, Slice(<<FailingStruct>>)>>

\* the field with tag t and value v of the pools
PoolField(t, v) == Field("F", TagPool[t].ddl, TagPool[t].db, ValuePool[v])

\* the fields DoEncode draws: every tag with every value
FieldIndex == (1..Len(TagPool)) \X (1..Len(ValuePool))

\* the fields around the field under study: a bool that is true, under the
\* tags of the context
ContextIndex ==
    {tv \in FieldIndex : TagPool[tv[1]].context /\ ValuePool[tv[2]] = BoolV(TRUE)}

\* the struct of the fields c with the field s put in as the i-th
PoolStruct(s, c, i) ==
    Struct([j \in 1..(Len(c) + 1) |->
                IF j < i THEN PoolField(c[j][1], c[j][2])
                ELSE IF j = i THEN PoolField(s[1], s[2])
                ELSE PoolField(c[j - 1][1], c[j - 1][2])])

\* the quote styles and the values DoModify draws: every text of at most
\* MaxText characters over QuoteAlphabet, a bool and an int
QuoteModifiers == <<NoQuotes, DoubleQuotes, SingleQuotes>>

QuoteAlphabet == <<"a", DQ, SQ, BS>>

ModifyValues ==
    {StrV(s) : s \in SeqsUpTo(QuoteAlphabet, MaxText)} \cup {BoolV(TRUE), IntV(10)}

\* the arguments DoExactlyOne draws from: the nil interface, a nil pointer,
\* String("foo"), a well-formed identifier, an identifier with an empty name
NilInterface == [k |-> "niliface"]

\* the values DoEncodeValue hands to structToSQL: structs, pointers to
\* structs, and values that are neither
TopLevelPool ==
    <<StrV(<<"a">>), BoolV(TRUE), IntV(10), NilPtr, NilInterface,
      Ptr(StrV(<<"b">>)), Slice(<<PresentStruct>>), Ptr(Ptr(PresentStruct)),
      PresentStruct, Ptr(PresentStruct), Ptr(FailingStruct)>>

ArgPool ==
    <<NilInterface, NilPtr, Ptr(StrV(<<"f", "o", "o">>)),
      NewAccountObjectIdentifier(<<"f", "o", "o">>), NewAccountObjectIdentifier(<<>>)>>

(***************************************************************************)
(* State: a caller is idle or holds the outcome of the call it made.       *)
(***************************************************************************)
VARIABLES pc, op, args, out

vars == <<pc, op, args, out>>

Init ==
    /\ pc = "idle"
    /\ op = "none"
    /\ args = <<>>
    /\ out = <<>>

\* the arguments of a call of GrantPrivilegeToShare
GrantArgs(p, onNil, d, s, f, v, tb, to, te) ==
    [objectPrivilege |-> Privileges[p],
     on |-> IF onNil THEN NilPtr
            ELSE Ptr(GrantPrivilegeToShareOn(
                        IF d THEN SetAccount ELSE ZeroAccount,
                        IF s THEN SetSchema ELSE ZeroSchema,
                        IF f THEN SetSchemaObject ELSE ZeroSchemaObject,
                        OnTables[tb],
                        IF v THEN SetSchemaObject ELSE ZeroSchemaObject)),
     to |-> NewAccountObjectIdentifier(ShareNames[to]),
     transportErr |-> TransportErrs[te]]

\* the arguments of a call of RevokePrivilegeFromShare
RevokeArgs(p, onNil, d, s, tb, vw, from, te) ==
    [objectPrivilege |-> Privileges[p],
     on |-> IF onNil THEN NilPtr
            ELSE Ptr(RevokePrivilegeFromShareOn(
                        IF d THEN SetAccount ELSE ZeroAccount,
                        IF s THEN SetSchema ELSE ZeroSchema,
                        OnTables[tb], OnViews[vw])),
     from |-> NewAccountObjectIdentifier(ShareNames[from]),
     transportErr |-> TransportErrs[te]]

\* the arguments of a call of Show, and what the transport answers
ShowArgs(optsNil, o, t, f, rows, te) ==
    [opts |-> IF optsNil THEN NilPtr
              ELSE Ptr(ShowGrantsOptions(ShowOns[o], ShowTos[t], ShowOfs[f])),
     rows |-> rows,
     transportErr |-> TransportErrs[te]]

\* a call is made with arguments a and ends with outcome o
Called(name, a, o) ==
    /\ pc' = "done"
    /\ op' = name
    /\ args' = a
    /\ out' = o

\* a call of GrantPrivilegeToShare
DoGrant ==
    /\ pc = "idle"
    /\ \E p \in 1..Len(Privileges), onNil \in BOOLEAN, d, s, f, v \in BOOLEAN,
          tb \in 1..Len(OnTables), to \in 1..Len(ShareNames),
          te \in 1..Len(TransportErrs) :
            LET a == GrantArgs(p, onNil, d, s, f, v, tb, to, te)
            IN Called("grant", a,
                      GrantPrivilegeToShare(a.objectPrivilege, a.on, a.to, a.transportErr))

\* a call of RevokePrivilegeFromShare
DoRevoke ==
    /\ pc = "idle"
    /\ \E p \in 1..Len(Privileges), onNil \in BOOLEAN, d, s \in BOOLEAN,
          tb \in 1..Len(OnTables), vw \in 1..Len(OnViews),
          from \in 1..Len(ShareNames), te \in 1..Len(TransportErrs) :
            LET a == RevokeArgs(p, onNil, d, s, tb, vw, from, te)
            IN Called("revoke", a,
                      RevokePrivilegeFromShare(a.objectPrivilege, a.on, a.from,
                                               a.transportErr))

\* a call of Show
DoShow ==
    /\ pc = "idle"
    /\ \E optsNil \in BOOLEAN, o \in 1..Len(ShowOns), t \in 1..Len(ShowTos),
          f \in 1..Len(ShowOfs), rows \in SeqsUpTo(RowPool, MaxRows),
          te \in 1..Len(TransportErrs) :
            LET a == ShowArgs(optsNil, o, t, f, rows, te)
            IN Called("show", a, Show(a.opts, a.rows, a.transportErr))

\* a call of structToSQL on an annotated struct of at most MaxFields fields:
\* any field of the pools among fields of the context
DoEncode ==
    /\ pc = "idle"
    /\ \E n \in 0..(MaxFields - 1), s \in FieldIndex :
          \E c \in [1..n -> ContextIndex], i \in 1..(n + 1) :
            Called("encode", [v |-> PoolStruct(s, c, i)],
                   structToSQL(PoolStruct(s, c, i)))

\* structToSQL(v) for a v of any kind
DoEncodeValue ==
    /\ pc = "idle"
    /\ \E i \in 1..Len(TopLevelPool) :
          Called("encodeValue", [v |-> TopLevelPool[i]], structToSQL(TopLevelPool[i]))

\* two calls of structToSQL on the same struct, the second on the struct as
\* the first left it
DoEncodeTwice ==
    /\ pc = "idle"
    /\ \E n \in 0..(MaxFields - 1), s \in FieldIndex :
          \E c \in [1..n -> ContextIndex], i \in 1..(n + 1) :
            Called("encodeTwice", [v |-> PoolStruct(s, c, i)],
                   [first |-> structToSQL(PoolStruct(s, c, i)),
                    after |-> valueAfter(PoolStruct(s, c, i)),
                    second |-> structToSQL(valueAfter(PoolStruct(s, c, i)))])

\* a call of structToSQL on a grant options value, as the tests of the sdk
\* make it: no validate() runs
DoEncodeOptions ==
    /\ pc = "idle"
    /\ \E p \in 1..Len(Privileges), onNil \in BOOLEAN, d, s, f, v \in BOOLEAN,
          tb \in 1..Len(OnTables), to \in 1..Len(ShareNames) :
            LET a == GrantArgs(p, onNil, d, s, f, v, tb, to, 1)
                opts == Ptr(grantPrivilegeToShareOptions(a.objectPrivilege, a.on, a.to))
            IN Called("encode", [v |-> opts], structToSQL(opts))

\* a call of quoteModifier.Modify
DoModify ==
    /\ pc = "idle"
    /\ \E q \in 1..Len(QuoteModifiers), v \in ModifyValues :
            Called("modify", [qm |-> QuoteModifiers[q], v |-> v],
                   [s |-> quoteModifier_Modify(QuoteModifiers[q], v)])

\* a call of exactlyOneValueSet
DoExactlyOne ==
    /\ pc = "idle"
    /\ \E values \in SeqsUpTo(ArgPool, MaxArgs) :
            Called("exactlyOne", [values |-> values],
                   [ok |-> exactlyOneValueSet(values)])

\* the caller drops the outcome: an options value lives for one call
Return ==
    /\ pc = "done"
    /\ pc' = "idle"
    /\ op' = "none"
    /\ args' = <<>>
    /\ out' = <<>>

Next ==
    \/ DoGrant
    \/ DoRevoke
    \/ DoShow
    \/ DoEncode
    \/ DoEncodeValue
    \/ DoEncodeTwice
    \/ DoEncodeOptions
    \/ DoModify
    \/ DoExactlyOne
    \/ Return

Spec == Init /\ [][Next]_vars

(***************************************************************************)
(* Properties.                                                             *)
(***************************************************************************)
\* the call that ended was one of the three operations of grants.go
OperationDone == pc = "done" /\ op \in {"grant", "revoke", "show"}

\* what validate() returns for the options value the operation builds from
\* its arguments
ValidateOfCall ==
    CASE op = "grant" ->
            grantPrivilegeToShareOptions_validate(
                Ptr(grantPrivilegeToShareOptions(args.objectPrivilege, args.on, args.to)))
      [] op = "revoke" ->
            revokePrivilegeFromShareOptions_validate(
                Ptr(revokePrivilegeFromShareOptions(args.objectPrivilege, args.on, args.from)))
      [] op = "show" -> ShowGrantsOptions_validate(showDefault(args.opts))

\* C1: in every call of GrantPrivilegeToShare, RevokePrivilegeFromShare and
\* Show the transport is invoked only after validate() and structToSQL both
\* returned no error, and with the text structToSQL returned; when validate()
\* returns an error the caller gets that error, structToSQL is not called and
\* nothing is sent.
C1_TransportOnlyAfterValidation ==
    OperationDone =>
        /\ out.validateErr = ValidateOfCall
        /\ out.sent # <<>> =>
                /\ ValidateOfCall = NoErr
                /\ out.encoded
                /\ out.enc.err = NoErr
                /\ out.sent = <<out.enc.sql>>
        /\ ValidateOfCall # NoErr =>
                /\ out.ret = ValidateOfCall
                /\ ~out.encoded
                /\ out.enc = NotEncoded
                /\ out.sent = <<>>

\* a grant that validate() rejected: the error came back, nothing was sent
C1_Witness ==
    /\ OperationDone
    /\ op = "grant"
    /\ ValidateOfCall = ErrOnlyOneOfGrantOn
    /\ out.ret = ErrOnlyOneOfGrantOn
    /\ out.sent = <<>>

\* how many of the values are set
NumSet(values) == Cardinality({i \in 1..Len(values) : valueSet(values[i])})

\* the fields of a nested OnTable / OnView, when the pointer is not nil
NestedExclusive(ptr) ==
    IF ptr.k = "nil" THEN <<>>
    ELSE <<<<Get(ptr, "Name"), Get(ptr, "AllInSchema")>>>>

\* the sets of mutually exclusive fields in the options value of the call
ExclusiveSets ==
    CASE op = "grant" ->
            IF args.on.k = "nil" THEN <<>>
            ELSE <<<<Get(args.on, "Database"), Get(args.on, "Schema"),
                     Get(args.on, "Function"), Get(args.on, "Table"),
                     Get(args.on, "View")>>>>
                 \o NestedExclusive(Get(args.on, "Table"))
      [] op = "revoke" ->
            IF args.on.k = "nil" THEN <<>>
            ELSE <<<<Get(args.on, "Database"), Get(args.on, "Schema"),
                     Get(args.on, "Table"), Get(args.on, "View")>>>>
                 \o NestedExclusive(Get(args.on, "Table"))
                 \o NestedExclusive(Get(args.on, "View"))
      [] op = "show" ->
            <<<<Get(showDefault(args.opts), "On"), Get(showDefault(args.opts), "To"),
                Get(showDefault(args.opts), "Of")>>>>

\* C2: for every options value of grant, revoke and show and every set of
\* mutually exclusive fields in it (the nested OnTable and OnView and a nil
\* options pointer of Show included), if zero or at least two fields of the
\* set are set the operation returns a validation error before any encoding.
C2_ExclusiveSetsRejected ==
    (OperationDone /\ \E i \in 1..Len(ExclusiveSets) : NumSet(ExclusiveSets[i]) # 1) =>
        /\ out.validateErr # NoErr
        /\ out.ret = out.validateErr
        /\ ~out.encoded

\* the same for the calls of RevokePrivilegeFromShare and Show alone
C2_RevokeAndShowRejected == op \in {"revoke", "show"} => C2_ExclusiveSetsRejected

\* the call that ended was structToSQL
EncodeDone == pc = "done" /\ op = "encode"

\* the fields of the struct that was encoded
EncodedFields == StructFields(Deref(args.v))

\* the text t occurs in the text s
HasInfix(s, t) == \E i \in 0..(Len(s) - Len(t)) : SubSeq(s, i + 1, i + Len(t)) = t

\* the field holds a value (not a nil pointer) that is no Identifier: a
\* scalar, or a struct without the Name method
HoldsNonIdentifier(field) ==
    Deref(field.val).k \in {"str", "bool", "int", "struct"}

\* C3: if a field tagged "identifier" holds a value that does not implement
\* Identifier, structToSQL returns an error (the CastError) to its caller: it
\* produces no SQL text and does not abort in any other way.
C3_IdentifierCastError ==
    (/\ EncodeDone
     /\ \E i \in 1..Len(EncodedFields) :
            /\ ddlType(EncodedFields[i]) = "identifier"
            /\ HoldsNonIdentifier(EncodedFields[i])) =>
        /\ out.err # NoErr
        /\ ~out.panicked
        /\ out.sql = <<>>

\* C4: a field tagged "static" always contributes its db tag text to the
\* statement, whatever its run-time value is (zero value, nil pointer,
\* non-nil pointer, struct or sequence).
C4_StaticAlwaysRendered ==
    (EncodeDone /\ out.err = NoErr) =>
        \A i \in 1..Len(EncodedFields) :
            ddlType(EncodedFields[i]) = "static" => HasInfix(out.sql, EncodedFields[i].db)

\* C6: the statement structToSQL produces has no two consecutive spaces, no
\* leading or trailing space and no empty parentheses: a field whose value is
\* absent contributes zero characters, at every nesting depth.
C6_AbsentContributesNothing ==
    (EncodeDone /\ out.err = NoErr) =>
        /\ ~HasInfix(out.sql, <<SP, SP>>)
        /\ ~HasInfix(out.sql, <<"(", ")">>)
        /\ out.sql # <<>> => (Head(out.sql) # SP /\ out.sql[Len(out.sql)] # SP)

\* an untagged field whose value is a scalar, a nil pointer, a pointer to a
\* scalar, an identifier or an empty sequence
UntaggedPlain(field) ==
    /\ field.ddl = <<>>
    /\ \/ Deref(field.val).k \in {"str", "bool", "int", "invalid", "id"}
       \/ Deref(field.val).k = "slice" /\ Deref(field.val).elems = <<>>

Tagged(field) == field.ddl # <<>>

\* C5 as the specification states it: a field with no ddl tag contributes
\* nothing to the statement for every run-time value (scalar, pointer, nested
\* struct or sequence), so encoding the struct without its untagged fields
\* gives the same result.
C5_UntaggedContributesNothing ==
    EncodeDone => out = structToSQL(Struct(SelectSeq(EncodedFields, Tagged)))

\* C5, amended: an untagged field whose value is a scalar, a nil pointer, a
\* pointer to a scalar, an identifier or an empty sequence contributes
\* nothing; an untagged nested struct is encoded by its own fields and an
\* untagged non-empty sequence by its elements, separated by commas.
C5_UntaggedScalarContributesNothing ==
    EncodeDone =>
        /\ out = structToSQL(Struct(SelectSeq(EncodedFields, LAMBDA f : ~UntaggedPlain(f))))
        /\ (/\ Len(EncodedFields) = 1
            /\ EncodedFields[1].ddl = <<>>
            /\ Deref(EncodedFields[1].val).k = "struct") =>
                out = structToSQL(Deref(EncodedFields[1].val))
        /\ (/\ Len(EncodedFields) = 1
            /\ EncodedFields[1].ddl = <<>>
            /\ EncodedFields[1].val = Slice(<<StrV(<<"a">>), StrV(<<"b">>), StrV(<<"c">>)>>)) =>
                out.sql = <<"a", ",", "b", ",", "c">>

\* an untagged string before a keyword that renders: only the keyword shows
C5_Witness ==
    /\ EncodeDone
    /\ Len(EncodedFields) = 2
    /\ EncodedFields[1].ddl = <<>>
    /\ EncodedFields[1].val = StrV(<<"a">>)
    /\ out.sql = <<"K", "W">>

\* the grant options value of the scenario: SELECT, On absent, share S1
GrantSelectToS1 ==
    Ptr(grantPrivilegeToShareOptions(SELECT, NilPtr, NewAccountObjectIdentifier(S1)))

\* the text of the clause a field parser returned
ClauseText(c) == IF c.t = "nil" THEN <<>> ELSE String(c)

\* the text of the clause of one field of a struct
FieldText(field) ==
    IF field.val.k = "nil" THEN <<>>
    ELSE ClauseText(parseFieldByKind(field, Deref(field.val)).c)

\* the non-empty texts from the i-th on, each after acc and exactly one space
RECURSIVE Spaced(_, _, _)
Spaced(texts, i, acc) ==
    IF i > Len(texts) THEN acc
    ELSE Spaced(texts, i + 1,
            IF texts[i] = <<>> THEN acc
            ELSE IF acc = <<>> THEN texts[i]
            ELSE acc \o <<SP>> \o texts[i])

\* C7: encoding the grant options value with objectPrivilege SELECT, On absent
\* and to = S1 gives exactly GRANT SELECT TO SHARE "S1"; in general the
\* statement is the texts of the clauses of the fields, in declared field
\* order, with exactly one space between a clause and the next.
C7_DeclaredOrderOneSpace ==
    /\ (EncodeDone /\ args.v = GrantSelectToS1) =>
            out = [sql |-> <<"G", "R", "A", "N", "T", " ", "S", "E", "L", "E", "C", "T", " ", "T", "O", " ", "S", "H", "A", "R", "E", " ", "\"", "S", "1", "\"">>, err |-> NoErr, panicked |-> FALSE]
    /\ (EncodeDone /\ out.err = NoErr) =>
            out.sql = Trim(Spaced([i \in 1..Len(EncodedFields) |->
                                    FieldText(EncodedFields[i])], 1, <<>>), SP)

C7_Witness ==
    /\ EncodeDone
    /\ args.v = GrantSelectToS1
    /\ out.sql = <<"G", "R", "A", "N", "T", " ", "S", "E", "L", "E", "C", "T", " ", "T", "O", " ", "S", "H", "A", "R", "E", " ", "\"", "S", "1", "\"">>

\* the call that ended was quoteModifier.Modify
ModifyDone == pc = "done" /\ op = "modify"

\* the text s with every character q replaced by the text esc
Escaped(s, q, esc) ==
    Join([i \in 1..Len(s) |-> IF s[i] = q THEN esc ELSE <<s[i]>>], <<>>)

\* C8: quoteModifier.Modify under DoubleQuotes returns the value wrapped in
\* double quotes with every double quote inside it doubled; under
\* SingleQuotes the value wrapped in single quotes with every single quote
\* inside it replaced by backslash-quote; under NoQuotes the value unchanged.
C8_QuoteModify ==
    ModifyDone =>
        out.s = CASE args.qm = DoubleQuotes ->
                        <<DQ>> \o Escaped(Sprintf(args.v), DQ, <<DQ, DQ>>) \o <<DQ>>
                  [] args.qm = SingleQuotes ->
                        <<SQ>> \o Escaped(Sprintf(args.v), SQ, <<BS, SQ>>) \o <<SQ>>
                  [] args.qm = NoQuotes -> Sprintf(args.v)

\* a"a under DoubleQuotes
C8_Witness ==
    /\ ModifyDone
    /\ args.qm = DoubleQuotes
    /\ args.v = StrV(<<"a", DQ, "a">>)
    /\ out.s = <<DQ, "a", DQ, DQ, "a", DQ>>

\* the share identifier of a call of grant or revoke
ShareOfCall == IF op = "grant" THEN args.to ELSE args.from

\* C9: validObjectidentifier(id) is true if and only if the name of id has at
\* least 1 and at most 255 characters; grant and revoke return
\* ErrInvalidObjectIdentifier exactly for the other share identifiers.
C9_ValidObjectIdentifier ==
    (pc = "done" /\ op \in {"grant", "revoke"}) =>
        /\ validObjectidentifier(ShareOfCall) <=>
                (Len(Name(ShareOfCall)) >= 1 /\ Len(Name(ShareOfCall)) <= 255)
        /\ out.ret = ErrInvalidObjectIdentifier <=>
                ~(Len(Name(ShareOfCall)) >= 1 /\ Len(Name(ShareOfCall)) <= 255)

\* a grant to a share whose name has 255 characters went through
C9_Witness ==
    /\ pc = "done"
    /\ op = "grant"
    /\ Len(Name(args.to)) = 255
    /\ validObjectidentifier(args.to)
    /\ out.sent # <<>>

\* the call that ended was exactlyOneValueSet
ExactlyOneDone == pc = "done" /\ op = "exactlyOne"

\* the argument is set: not nil, and an identifier is well-formed
IsSetArg(v) ==
    /\ v.k \notin {"niliface", "nil"}
    /\ v.k = "id" => (Len(Name(v)) >= 1 /\ Len(Name(v)) <= 255)

\* C10: exactlyOneValueSet(values...) is true if and only if exactly one of
\* its arguments is set (non-nil, an identifier well-formed): false for no
\* arguments and for two or more set arguments, nil arguments being ignored;
\* Show passes validation exactly when one of On, To and Of is set.
C10_ExactlyOneValueSet ==
    /\ ExactlyOneDone =>
            (out.ok <=> Cardinality({i \in 1..Len(args.values) :
                                        IsSetArg(args.values[i])}) = 1)
    /\ (pc = "done" /\ op = "show" /\ args.opts.k # "nil") =>
            (out.validateErr = NoErr <=>
                Cardinality({n \in {"On", "To", "Of"} : Get(args.opts, n).k # "nil"}) = 1)

\* two set arguments around a nil one
C10_Witness ==
    /\ ExactlyOneDone
    /\ args.values = <<Ptr(StrV(<<"f", "o", "o">>)), NilInterface, Ptr(StrV(<<"f", "o", "o">>))>>
    /\ ~out.ok

\* structToSQL was called twice on the same struct
EncodeTwiceDone == pc = "done" /\ op = "encodeTwice"

HasModifier(field, name) == \E i \in 1..Len(field.ddl) : field.ddl[i] = name

\* a parameter field that holds a scalar or a pointer to one
ScalarParameter(field) ==
    /\ ddlType(field) = "parameter"
    /\ Deref(field.val).k \in {"str", "bool", "int"}

\* the value of the field in the quotes its tag asks for
QuotedValue(field) ==
    CASE HasModifier(field, "double_quotes") ->
            <<DQ>> \o Sprintf(Deref(field.val)) \o <<DQ>>
      [] HasModifier(field, "single_quotes") ->
            <<SQ>> \o Sprintf(Deref(field.val)) \o <<SQ>>
      [] OTHER -> Sprintf(Deref(field.val))

\* what the claim says a parameter field renders as
ParameterText(field) ==
    IF HasModifier(field, "reverse")
    THEN QuotedValue(field) \o <<SP>> \o field.db
    ELSE IF HasModifier(field, "no_equals")
    THEN field.db \o <<SP>> \o QuotedValue(field)
    ELSE field.db \o <<" ", "=", " ">> \o QuotedValue(field)

\* C12: a parameter clause with the reverse modifier renders as the (quoted)
\* value, one space, then the key, with no equals sign, also when the equals
\* modifier is asked for on the same field; without the reverse modifier it
\* renders as the key, the equality rendering, then the (quoted) value.
C12_ParameterReverse ==
    (EncodeDone /\ out.err = NoErr) =>
        \A i \in 1..Len(EncodedFields) :
            ScalarParameter(EncodedFields[i]) =>
                /\ HasInfix(out.sql, ParameterText(EncodedFields[i]))
                /\ Len(EncodedFields) = 1 => out.sql = ParameterText(EncodedFields[i])
                /\ (Len(EncodedFields) = 1 /\ HasModifier(EncodedFields[i], "reverse"))
                       => ~HasInfix(out.sql, <<"=">>)

\* reverse and equals on the same field: reverse wins
C12_Witness ==
    /\ EncodeDone
    /\ Len(EncodedFields) = 1
    /\ EncodedFields[1].ddl = <<"parameter", "double_quotes", "reverse", "equals">>
    /\ EncodedFields[1].val = StrV(<<"a">>)
    /\ out.sql = <<"\"", "a", "\"", " ", "R", "E">>

\* a field tagged as a parenthesized list that holds n >= 1 scalars
ScalarList(field) ==
    /\ field.ddl = <<"list", "parentheses">>
    /\ field.val.k = "slice"
    /\ Len(field.val.elems) >= 1
    /\ \A j \in 1..Len(field.val.elems) : field.val.elems[j].k \in {"str", "bool", "int"}

\* the plain text of the first n elements, in element order, with a comma
\* between two neighbours
RECURSIVE CommaSeparated(_, _)
CommaSeparated(elems, n) ==
    IF n = 0 THEN <<>>
    ELSE IF n = 1 THEN Sprintf(elems[1])
    ELSE CommaSeparated(elems, n - 1) \o <<",">> \o Sprintf(elems[n])

\* what the claim says a parenthesized list renders as
ListText(field) ==
    <<"(">> \o CommaSeparated(field.val.elems, Len(field.val.elems)) \o <<")">>

\* C13: a sequence field of n >= 1 scalar elements tagged as a parenthesized
\* list renders as the elements' plain text in element order, joined by
\* commas with no spaces and wrapped in one pair of parentheses.
C13_ParenthesizedList ==
    (EncodeDone /\ out.err = NoErr) =>
        \A i \in 1..Len(EncodedFields) :
            ScalarList(EncodedFields[i]) =>
                /\ HasInfix(out.sql, ListText(EncodedFields[i]))
                /\ Len(EncodedFields) = 1 => out.sql = ListText(EncodedFields[i])

\* three elements a, b, c give (a,b,c)
C13_Witness ==
    /\ EncodeDone
    /\ Len(EncodedFields) = 1
    /\ ScalarList(EncodedFields[1])
    /\ Len(EncodedFields[1].val.elems) = 3
    /\ out.err = NoErr
    /\ out.sql = <<"(", "a", ",", "b", ",", "c", ")">>

\* structToSQL has returned, whatever the kind of its argument was
EncodeAnyDone == pc = "done" /\ op \in {"encode", "encodeValue"}

\* v is a struct or a pointer to one
StructOrPointerToStruct(v) ==
    \/ v.k \in {"struct", "id"}
    \/ v.k = "ptr" /\ v.v.k \in {"struct", "id"}

\* the errors parseStruct raises below v: one for every sequence element that
\* is a pointer but not to a struct, at any depth
RECURSIVE NestedErrors(_)
NestedErrors(v) ==
    CASE v.k = "slice" ->
            UNION {(IF v.elems[i].k = "nil" THEN {ErrExpectedStruct("invalid")}
                    ELSE IF v.elems[i].k = "ptr" /\ ~StructOrPointerToStruct(v.elems[i])
                    THEN {ErrExpectedStruct(Kind(v.elems[i].v))}
                    ELSE {}) \cup NestedErrors(v.elems[i]) : i \in 1..Len(v.elems)}
      [] v.k = "struct" ->
            UNION {NestedErrors(v.fields[i].val) : i \in 1..Len(v.fields)}
      [] v.k = "ptr" -> NestedErrors(v.v)
      [] OTHER -> {}

\* C14: structToSQL given a top-level value that is not a struct or a pointer
\* to a struct (a nil pointer included) returns an error and the empty
\* string; an error raised by parseStruct at any nesting depth (nested
\* struct, list of structs, sequence element) is returned unchanged by
\* structToSQL, again with the empty string.
C14_ErrorsReturned ==
    (EncodeAnyDone /\ ~out.panicked) =>
        /\ ~StructOrPointerToStruct(args.v) =>
                /\ out.err # NoErr
                /\ out.err = ErrExpectedStruct(Kind(IF args.v.k = "ptr" THEN args.v.v
                                                    ELSE IF args.v.k = "nil" THEN Invalid
                                                    ELSE args.v))
                /\ out.sql = <<>>
        /\ (StructOrPointerToStruct(args.v) /\ NestedErrors(args.v) # {}) =>
                /\ out.err \in NestedErrors(args.v)
                /\ out.sql = <<>>
        /\ (StructOrPointerToStruct(args.v) /\ NestedErrors(args.v) = {}) =>
                out.err = NoErr
        /\ out.err # NoErr => out.sql = <<>>

\* the error of a sequence element two structs down comes back as it was
\* raised
C14_Witness ==
    /\ EncodeDone
    /\ Len(EncodedFields) = 2
    /\ EncodedFields[2].val = Slice(<<FailingStruct>>)
    /\ out.err = ErrExpectedStruct("int")
    /\ out.sql = <<>>
    /\ ~out.panicked

\* a nil pointer at the top is an error
C14_WitnessNilPointer ==
    /\ pc = "done" /\ op = "encodeValue"
    /\ args.v = NilPtr
    /\ out.err = ErrExpectedStruct("invalid")
    /\ out.sql = <<>>

\* Show has returned after the transport decoded the rows
RowsDecoded ==
    /\ pc = "done" /\ op = "show"
    /\ out.validateErr = NoErr
    /\ out.enc.err = NoErr
    /\ args.transportErr = NoErr

\* the position of the first dot of s, 0 when s has none
FirstDot(s) ==
    IF \E i \in 1..Len(s) : s[i] = "."
    THEN CHOOSE i \in 1..Len(s) : s[i] = "." /\ \A j \in 1..(i - 1) : s[j] # "."
    ELSE 0

\* s without its first dot-separated component (and without the dot)
AfterFirstDot(s) ==
    IF FirstDot(s) = 0 THEN <<>> ELSE SubSeq(s, FirstDot(s) + 1, Len(s))

\* what the claim says the grantee name of the Grant of a row is
GranteeOf(row) ==
    IF row.GrantedTo = <<"S", "H", "A", "R", "E">>
    THEN NewAccountObjectIdentifier(AfterFirstDot(row.GranteeName))
    ELSE NewAccountObjectIdentifier(row.GranteeName)

\* C15: grantRow.toGrant never fails; when granted_to is the share object
\* type the GranteeName of the Grant is the row's grantee_name without its
\* first dot-separated component, so that a name of the form account.share
\* gives a non-empty grantee name; for every other granted_to it is
\* grantee_name unchanged.  Show returns exactly one Grant per decoded row,
\* in row order.
C15_ToGrant ==
    RowsDecoded =>
        /\ out.ret = NoErr
        /\ Len(out.grants) = Len(args.rows)
        /\ \A i \in 1..Len(args.rows) :
              /\ grantRow_toGrant(args.rows[i]).err = NoErr
              /\ out.grants[i].GranteeName = GranteeOf(args.rows[i])
              /\ out.grants[i].Privilege = args.rows[i].Privilege
              /\ out.grants[i].GrantedTo = args.rows[i].GrantedTo
              /\ (/\ args.rows[i].GrantedTo = <<"S", "H", "A", "R", "E">>
                  /\ FirstDot(args.rows[i].GranteeName) > 0
                  /\ FirstDot(args.rows[i].GranteeName) < Len(args.rows[i].GranteeName))
                 => Name(out.grants[i].GranteeName) # <<>>

\* a row granted to share ACC.S1, then a row granted to role R1
C15_Witness ==
    /\ RowsDecoded
    /\ Len(args.rows) = 2
    /\ args.rows[1].GrantedTo = <<"S", "H", "A", "R", "E">> /\ args.rows[1].GranteeName = <<"A", "C", "C", ".", "S", "1">>
    /\ args.rows[2].GrantedTo = <<"R", "O", "L", "E">> /\ args.rows[2].GranteeName = <<"R", "1">>
    /\ Len(out.grants) = 2
    /\ Name(out.grants[1].GranteeName) = <<"S", "1">>
    /\ Name(out.grants[2].GranteeName) = <<"R", "1">>

=============================================================================
